---------------------------- MODULE Spec2Model ----------------------------
(***************************************************************************)
(* A model of the pattern library of .ai/agents/base_agent.py              *)
(* (PatternFirstAgent): the pattern codec (format_pattern_markdown,        *)
(* parse_pattern_file, extract_section), the matcher (find_pattern), the   *)
(* validator (validate_pattern) and the execute pipeline of an agent.      *)
(*                                                                         *)
(* Text is modelled character by character: a Python str is a sequence of  *)
(* one-character strings, so that lower(), split(), strip(), find(), len() *)
(* and the `in` substring test are computed as Python computes them.       *)
(***************************************************************************)
EXTENDS Integers, Sequences, FiniteSets, TLC

VARIABLES
    store,      \* domain -> (file name -> file text): .ai/patterns/<domain>/*.md
    metrics,    \* the records appended to .ai/metrics.jsonl, in order
    errors,     \* the lines appended to .ai/errors.log, in order
    pc,         \* the position of the running execute() invocation
    agent,      \* the agent whose execute() is running
    task,       \* the task of the running invocation
    pattern,    \* execute()'s local variable `pattern`
    gen_code,   \* execute()'s local variable `code`
    exc,        \* the exception raised in the try block, if any
    response,   \* what the last execute() returned
    written,    \* history: the records save_pattern wrote, with their files
    hit,        \* history: what find_pattern returned in this invocation
    outcomes,   \* history: how each finished invocation ended
    calls,      \* number of execute() invocations started
    arg,        \* the input of the function under test (function-level specifications)
    ret         \* its result

vars == <<store, metrics, errors, pc, agent, task, pattern, gen_code, exc, response,
          written, hit, outcomes, calls, arg, ret>>

execVars == <<store, metrics, errors, pc, agent, task, pattern, gen_code, exc,
              response, written, hit, outcomes, calls>>

-----------------------------------------------------------------------------
(* Python values *)

\* Python's None.
None == [none |-> TRUE]

IsNone(x) == "none" \in DOMAIN x

\* The empty dict {}.
EmptyDict == [k \in {} |-> k]

\* dict.get(key, default)
Get(d, k, default) == IF k \in DOMAIN d THEN d[k] ELSE default

\* bool(x) of a value that is None or a dict: `if not pattern`.
Truthy(x) == ~IsNone(x) /\ DOMAIN x # {}

\* The values a YAML mapping holds, tagged with their Python type.
StrV(s) == [t |-> "str", s |-> s, n |-> 0, l |-> <<>>]

IntV(n) == [t |-> "int", s |-> <<>>, n |-> n, l |-> <<>>]

ListV(l) == [t |-> "list", s |-> <<>>, n |-> 0, l |-> l]

NullV == [t |-> "null", s |-> <<>>, n |-> 0, l |-> <<>>]

-----------------------------------------------------------------------------
(* Python str operations, on sequences of characters *)

\* The character U+0060 (grave accent), of which a code fence is made. Every
\* other character is the one-character string of itself.
Backtick == "U+0060"

\* The characters str.strip() and str.split() treat as whitespace.
Whitespace == {" ", "\n", "\t"}

UpperCase == <<"A","B","C","D","E","F","G","H","I","J","K","L","M",
               "N","O","P","Q","R","S","T","U","V","W","X","Y","Z">>

LowerCase == <<"a","b","c","d","e","f","g","h","i","j","k","l","m",
               "n","o","p","q","r","s","t","u","v","w","x","y","z">>

Digits == <<"0","1","2","3","4","5","6","7","8","9">>

Range(s) == {s[i] : i \in DOMAIN s}

LowerChar(c) ==
    IF \E i \in DOMAIN UpperCase : UpperCase[i] = c
    THEN LowerCase[CHOOSE i \in DOMAIN UpperCase : UpperCase[i] = c]
    ELSE c

\* str.lower()
Lower(s) == [i \in DOMAIN s |-> LowerChar(s[i])]

\* text[i:].startswith(pat), with i counted from 1
MatchAt(text, pat, i) ==
    /\ i >= 1
    /\ i + Len(pat) - 1 <= Len(text)
    /\ \A j \in 1..Len(pat) : text[i + j - 1] = pat[j]

\* str.find(pat, from): the lowest position >= from where pat occurs, counted
\* from 1; 0 when there is none (Python's -1).
Find(text, pat, from) ==
    LET hits == {i \in from..(Len(text) - Len(pat) + 1) : MatchAt(text, pat, i)}
    IN  IF hits = {} THEN 0 ELSE CHOOSE i \in hits : \A j \in hits : i <= j

\* pat in text
Contains(text, pat) == Find(text, pat, 1) # 0

\* text[from:], with from counted from 1
From(text, from) == SubSeq(text, from, Len(text))

\* str.strip()
Strip(s) ==
    LET keep == {i \in DOMAIN s : s[i] \notin Whitespace}
    IN  IF keep = {} THEN <<>>
        ELSE SubSeq(s, CHOOSE i \in keep : \A j \in keep : i <= j,
                       CHOOSE i \in keep : \A j \in keep : i >= j)

RECURSIVE WordsFrom(_, _, _)
WordsFrom(s, i, cur) ==
    IF i > Len(s) THEN (IF cur = <<>> THEN {} ELSE {cur})
    ELSE IF s[i] \in Whitespace
         THEN (IF cur = <<>> THEN {} ELSE {cur}) \cup WordsFrom(s, i + 1, <<>>)
         ELSE WordsFrom(s, i + 1, Append(cur, s[i]))

\* set(str.split()): the set of the maximal runs of non-whitespace characters
Words(s) == WordsFrom(s, 1, <<>>)

RECURSIVE Join(_)
\* "".join(parts)
Join(parts) == IF parts = <<>> THEN <<>> ELSE Head(parts) \o Join(Tail(parts))

\* c * n
Repeat(c, n) == [i \in 1..n |-> c]

-----------------------------------------------------------------------------
(* The metadata keys and the literals of validate_pattern *)

K_task == <<"t","a","s","k">>

K_complexity == <<"c","o","m","p","l","e","x","i","t","y">>

K_tags == <<"t","a","g","s">>

K_dependencies == <<"d","e","p","e","n","d","e","n","c","i","e","s">>

K_language == <<"l","a","n","g","u","a","g","e">>

\* required_metadata = ['task', 'complexity', 'tags', 'dependencies']
required_metadata == <<K_task, K_complexity, K_tags, K_dependencies>>

S_TODO == <<"T","O","D","O">>

S_pass == <<"p","a","s","s">>

\* len(code.strip()) < 50
MinCodeLen == 50

\* complexity > 5
MaxComplexity == 5

MissingMetadata(field) == [msg |-> "Missing required metadata", field |-> field]

CodeTooShort == [msg |-> "Pattern code too short", field |-> <<>>]

IncompleteSections == [msg |-> "Pattern contains incomplete sections", field |-> <<>>]

ComplexityWarning(c) == [msg |-> "Pattern complexity exceeds recommended max 5", complexity |-> c]

-----------------------------------------------------------------------------
(* validate_pattern *)

\* The loop over required_metadata: one error per missing field, in order.
MissingErrors(p) ==
    LET md == Get(p, "metadata", EmptyDict)
        missing(f) == f \notin DOMAIN md
        fields == SelectSeq(required_metadata, missing)
    IN  [i \in DOMAIN fields |-> MissingMetadata(fields[i])]

CodeShortMutant(code) == Len(code) < MinCodeLen

\* len(code.strip()) < 50
CodeShort(code) == Len(Strip(code)) < MinCodeLen

\* 'TODO' in code or 'pass' in code
CodeIncomplete(code) == Contains(code, S_TODO) \/ Contains(code, S_pass)

ComplexityExceededMutant(c) == c >= MaxComplexity

\* complexity > 5
ComplexityExceeded(c) == c > MaxComplexity

\* validate_pattern(pattern). The complexity is an integer, as the data model
\* has it (Python raises TypeError on the comparison of a str or a list with 5).
validate_pattern(p) ==
    LET code == Get(p, "code", <<>>)
        complexity == Get(Get(p, "metadata", EmptyDict), K_complexity, IntV(0)).n
        errs == MissingErrors(p)
                  \o (IF CodeShort(code) THEN <<CodeTooShort>> ELSE <<>>)
                  \o (IF CodeIncomplete(code) THEN <<IncompleteSections>> ELSE <<>>)
        warns == IF ComplexityExceeded(complexity)
                 THEN <<ComplexityWarning(complexity)>> ELSE <<>>
    IN  [valid |-> Len(errs) = 0, errors |-> errs, warnings |-> warns]

-----------------------------------------------------------------------------
(* yaml.dump and yaml.safe_load, for the documents of the pattern store:   *)
(* block mappings (no nesting) of plain, single- or double-quoted scalars, *)
(* integers, flow sequences on one line and block sequences of scalars.    *)

UpperChar(c) ==
    IF \E i \in DOMAIN LowerCase : LowerCase[i] = c
    THEN UpperCase[CHOOSE i \in DOMAIN LowerCase : LowerCase[i] = c]
    ELSE c

Upper(s) == [i \in DOMAIN s |-> UpperChar(s[i])]

Capitalize(s) == [i \in DOMAIN s |-> IF i = 1 THEN UpperChar(s[i]) ELSE s[i]]

\* Code point order of the characters that occur in mapping keys.
AsciiOrder == Digits \o UpperCase \o <<"_">> \o LowerCase

Ord(c) == CHOOSE i \in DOMAIN AsciiOrder : AsciiOrder[i] = c

RECURSIVE StrLess(_, _)
\* a < b for Python str: lexicographic by code point
StrLess(a, b) ==
    IF b = <<>> THEN FALSE
    ELSE IF a = <<>> THEN TRUE
    ELSE IF Head(a) = Head(b) THEN StrLess(Tail(a), Tail(b))
    ELSE Ord(Head(a)) < Ord(Head(b))

RECURSIVE SortedKeys(_)
\* sorted(keys): yaml.dump sorts the keys of a mapping (sort_keys=True)
SortedKeys(ks) ==
    IF ks = {} THEN <<>>
    ELSE LET m == CHOOSE k \in ks : \A o \in ks \ {k} : StrLess(k, o)
         IN  <<m>> \o SortedKeys(ks \ {m})

RECURSIVE IntToStr(_)
\* str(n), n >= 0
IntToStr(n) ==
    IF n < 10 THEN <<Digits[n + 1]>>
    ELSE IntToStr(n \div 10) \o <<Digits[(n % 10) + 1]>>

RECURSIVE StrToInt(_)
\* int(s), s a non-empty sequence of digits
StrToInt(s) ==
    IF s = <<>> THEN 0
    ELSE 10 * StrToInt(SubSeq(s, 1, Len(s) - 1))
           + (CHOOSE d \in 0..9 : Digits[d + 1] = s[Len(s)])

IsInteger(s) == s # <<>> /\ \A i \in DOMAIN s : s[i] \in Range(Digits)

\* digits '.' digits: the resolver's float
IsFloat(s) ==
    /\ \E i \in DOMAIN s : s[i] = "."
    /\ Cardinality({i \in DOMAIN s : s[i] = "."}) = 1
    /\ \A i \in DOMAIN s : s[i] \in Range(Digits) \cup {"."}
    /\ \E i \in DOMAIN s : s[i] \in Range(Digits)

S_true == <<"t","r","u","e">>

S_false == <<"f","a","l","s","e">>

S_yes == <<"y","e","s">>

S_no == <<"n","o">>

S_on == <<"o","n">>

S_off == <<"o","f","f">>

S_null == <<"n","u","l","l">>

Cases(w) == {w, Capitalize(w), Upper(w)}

\* The plain scalars the YAML 1.1 resolver reads as a bool
BoolWords == UNION {Cases(w) : w \in {S_true, S_false, S_yes, S_no, S_on, S_off}}

\* and as null
NullWords == Cases(S_null) \cup {<<"~">>}

BoolV(s) == [t |-> "bool", s |-> s, n |-> 0, l |-> <<>>]

FloatV(s) == [t |-> "float", s |-> s, n |-> 0, l |-> <<>>]

ErrorV == [t |-> "error", s |-> <<>>, n |-> 0, l |-> <<>>]

\* The characters a plain scalar of the store's documents is made of.
PlainChars == Range(LowerCase) \cup Range(UpperCase) \cup Range(Digits)
                \cup {" ", ".", "_", "-"}

\* The emitter writes a str plain when it reads back as the same str, and
\* single-quoted otherwise.
IsPlain(s) ==
    /\ s # <<>>
    /\ \A i \in DOMAIN s : s[i] \in PlainChars
    /\ s[1] \notin {" ", "-", "."}
    /\ s[Len(s)] # " "
    /\ ~IsInteger(s) /\ ~IsFloat(s)
    /\ s \notin BoolWords \cup NullWords

RECURSIVE DoubleQuotes(_)
\* ' is written '' inside a single-quoted scalar
DoubleQuotes(s) ==
    IF s = <<>> THEN <<>>
    ELSE (IF Head(s) = "'" THEN <<"'", "'">> ELSE <<Head(s)>>) \o DoubleQuotes(Tail(s))

RECURSIVE HalveQuotes(_)
HalveQuotes(s) ==
    IF s = <<>> THEN <<>>
    ELSE IF Len(s) >= 2 /\ s[1] = "'" /\ s[2] = "'"
         THEN <<"'">> \o HalveQuotes(SubSeq(s, 3, Len(s)))
         ELSE <<Head(s)>> \o HalveQuotes(Tail(s))

DumpScalar(s) == IF IsPlain(s) THEN s ELSE <<"'">> \o DoubleQuotes(s) \o <<"'">>

DumpItems(l) == Join([i \in DOMAIN l |-> <<"-", " ">> \o DumpScalar(l[i]) \o <<"\n">>])

\* One `key: value` entry in block style (default_flow_style=False).
DumpEntry(k, v) ==
    CASE v.t = "str"  -> k \o <<":", " ">> \o DumpScalar(v.s) \o <<"\n">>
      [] v.t = "int"  -> k \o <<":", " ">> \o IntToStr(v.n) \o <<"\n">>
      [] v.t = "list" -> IF v.l = <<>> THEN k \o <<":", " ", "[", "]", "\n">>
                         ELSE k \o <<":", "\n">> \o DumpItems(v.l)
      [] OTHER        -> k \o <<":", " ">> \o S_null \o <<"\n">>

\* yaml.dump(metadata, default_flow_style=False)
yaml_dump(md) ==
    LET ks == SortedKeys(DOMAIN md)
    IN  IF ks = <<>> THEN <<"{", "}", "\n">>
        ELSE Join([i \in DOMAIN ks |-> DumpEntry(ks[i], md[ks[i]])])

RECURSIVE SplitOn(_, _)
\* str.split(sep), sep one character
SplitOn(s, sep) ==
    LET at == Find(s, <<sep>>, 1)
    IN  IF at = 0 THEN <<s>>
        ELSE <<SubSeq(s, 1, at - 1)>> \o SplitOn(From(s, at + 1), sep)

\* A scalar of the document, resolved to its Python value.
ParseScalar(txt) ==
    IF txt = <<>> \/ txt \in NullWords THEN NullV
    ELSE IF txt[1] = "'"
         THEN IF Len(txt) >= 2 /\ txt[Len(txt)] = "'"
              THEN StrV(HalveQuotes(SubSeq(txt, 2, Len(txt) - 1))) ELSE ErrorV
    ELSE IF txt[1] = "\""
         THEN IF Len(txt) >= 2 /\ txt[Len(txt)] = "\""
              THEN StrV(SubSeq(txt, 2, Len(txt) - 1)) ELSE ErrorV
    ELSE IF txt[1] \in {"[", "{", "]", "}", "@", Backtick, "%", "&", "*", "!", "|", ">"}
         THEN ErrorV
    ELSE IF Contains(txt, <<":", " ">>) \/ txt[Len(txt)] = ":" THEN ErrorV
    ELSE IF IsInteger(txt) THEN IntV(StrToInt(txt))
    ELSE IF IsFloat(txt) THEN FloatV(txt)
    ELSE IF txt \in BoolWords THEN BoolV(txt)
    ELSE StrV(txt)

\* A value: a scalar, or a flow sequence [a, b] of plain scalars.
ParseValue(txt) ==
    IF txt # <<>> /\ txt[1] = "["
    THEN IF txt[Len(txt)] # "]" THEN ErrorV
         ELSE LET inner == Strip(SubSeq(txt, 2, Len(txt) - 1))
                  parts == IF inner = <<>> THEN <<>> ELSE SplitOn(inner, ",")
                  items == [i \in DOMAIN parts |-> ParseScalar(Strip(parts[i]))]
              IN  IF \E i \in DOMAIN items : items[i].t # "str" THEN ErrorV
                  ELSE ListV([i \in DOMAIN items |-> items[i].s])
    ELSE ParseScalar(txt)

Put(d, k, v) == [x \in DOMAIN d \cup {k} |-> IF x = k THEN v ELSE d[x]]

IsItem(line) == line = <<"-">> \/ MatchAt(line, <<"-", " ">>, 1)

\* Where the key of a `key: value` line ends: the first ": ", or a final ":".
KeyEnd(line) ==
    LET at == Find(line, <<":", " ">>, 1)
    IN  IF at # 0 THEN at
        ELSE IF line # <<>> /\ line[Len(line)] = ":" THEN Len(line) ELSE 0

RECURSIVE LoadMapping(_, _, _, _)
\* The lines of a block mapping from line i on; `open` is the key whose value is
\* a block sequence still being read (<<>>: none).
LoadMapping(lines, i, map, open) ==
    IF i > Len(lines) THEN [kind |-> "mapping", map |-> map]
    ELSE LET line == Strip(lines[i])
         IN  IF line = <<>> THEN LoadMapping(lines, i + 1, map, open)
             ELSE IF IsItem(line)
             THEN IF open = <<>> THEN [kind |-> "error", map |-> EmptyDict]
                  ELSE LET item == ParseScalar(Strip(From(line, 2)))
                           sofar == IF map[open].t = "list" THEN map[open].l ELSE <<>>
                       IN  IF item.t # "str" THEN [kind |-> "error", map |-> EmptyDict]
                           ELSE LoadMapping(lines, i + 1,
                                    Put(map, open, ListV(Append(sofar, item.s))), open)
             ELSE LET at == KeyEnd(line)
                      key == Strip(SubSeq(line, 1, at - 1))
                      val == ParseValue(Strip(From(line, at + 1)))
                  IN  IF at = 0 \/ key = <<>> \/ val.t = "error"
                      THEN [kind |-> "error", map |-> EmptyDict]
                      ELSE LoadMapping(lines, i + 1, Put(map, key, val),
                                       IF val.t = "null" THEN key ELSE <<>>)

\* yaml.safe_load(text): kind is "mapping" (a dict, in map), "other" (None, a
\* str, a number or a list: a value without .get) or "error" (yaml.YAMLError).
yaml_load(text) ==
    LET all == SplitOn(text, "\n")
        strip(l) == Strip(l) # <<>>
        lines == SelectSeq(all, strip)
    IN  IF lines = <<>> THEN [kind |-> "other", map |-> EmptyDict]
        ELSE IF IsItem(Strip(lines[1]))
        THEN IF \A i \in DOMAIN lines : IsItem(Strip(lines[i]))
             THEN [kind |-> "other", map |-> EmptyDict]
             ELSE [kind |-> "error", map |-> EmptyDict]
        ELSE IF KeyEnd(Strip(lines[1])) = 0
        THEN IF Len(lines) = 1 /\ ParseValue(Strip(lines[1])).t # "error"
             THEN [kind |-> "other", map |-> EmptyDict]
             ELSE [kind |-> "error", map |-> EmptyDict]
        ELSE LoadMapping(lines, 1, EmptyDict, <<>>)

-----------------------------------------------------------------------------
(* The pattern codec: format_pattern_markdown, extract_section and         *)
(* parse_pattern_file.  A pattern is a dict with the keys "metadata" (a    *)
(* mapping from key to tagged value), "description", "setup", "usage",     *)
(* "notes", "code" (str) and "language" (a tagged value, as read from the  *)
(* metadata).                                                              *)

K_created == <<"c","r","e","a","t","e","d">>

K_updated == <<"u","p","d","a","t","e","d">>

K_version == <<"v","e","r","s","i","o","n">>

\* metadata['version'] = '1.0.0'
S_version == <<"1",".","0",".","0">>

S_typescript == <<"t","y","p","e","s","c","r","i","p","t">>

S_Pattern == <<"P","a","t","t","e","r","n">>

S_NoSetup ==
    <<"N","o"," ","a","d","d","i","t","i","o","n","a","l"," ","s","e","t",
      "u","p"," ","r","e","q","u","i","r","e","d",".">>

\* The markers parse_pattern_file hands to extract_section.
M_Description == <<"D","e","s","c","r","i","p","t","i","o","n">>

M_Code == <<"#","#"," ","C","o","d","e">>

M_Setup ==
    <<"#","#"," ","S","e","t","u","p"," ","I","n","s","t","r","u","c","t",
      "i","o","n","s">>

M_Usage == <<"#","#"," ","U","s","a","g","e">>

M_Notes == <<"#","#"," ","N","o","t","e","s">>

Fence == <<Backtick, Backtick, Backtick>>

\* datetime.now().isoformat(): the clock's reading when a pattern is formatted.
Now ==
    <<"2","0","2","6","-","0","1","-","0","1","T","0","0",":","0","0",":",
      "0","0">>

\* str(value), as an f-string inserts it
PyStr(v) ==
    CASE v.t = "str" -> v.s
      [] v.t = "int" -> IntToStr(v.n)
      [] v.t = "list" -> <<"[">> \o Join([i \in DOMAIN v.l |->
                            (IF i = 1 THEN <<>> ELSE <<",", " ">>)
                              \o <<"'">> \o v.l[i] \o <<"'">>]) \o <<"]">>
      [] v.t = "null" -> <<"N","o","n","e">>
      [] OTHER -> v.s

\* metadata after the three assignments of format_pattern_markdown
Stamped(md) ==
    Put(Put(Put(md, K_created, StrV(Now)), K_updated, StrV(Now)), K_version, StrV(S_version))

\* format_pattern_markdown(pattern): the f-string template, piece by piece
format_pattern_markdown(p) ==
    LET metadata == Stamped(Get(p, "metadata", EmptyDict))
    IN  Join(<<
          <<"-","-","-","\n">>, yaml_dump(metadata), <<"-","-","-","\n">>,
          <<"\n","#"," ">>, PyStr(Get(metadata, K_task, StrV(S_Pattern))),
          <<"\n","\n">>, <<"#","#"," ">>, M_Description, <<"\n","\n">>,
          Get(p, "description", <<>>),
          <<"\n","\n">>, M_Setup, <<"\n","\n">>,
          Get(p, "setup", S_NoSetup),
          <<"\n","\n">>, M_Usage, <<"\n","\n">>,
          Get(p, "usage", <<>>),
          <<"\n","\n">>, M_Notes, <<"\n","\n">>,
          Get(p, "notes", <<>>),
          <<"\n","\n">>, M_Code, <<"\n","\n">>,
          Fence, PyStr(Get(p, "language", StrV(S_typescript))), <<"\n">>,
          Get(p, "code", <<>>),
          <<"\n">>, Fence, <<"\n">>
        >>)

\* extract_section(text, start, end); end = <<>> stands for end=None
extract_section(text, start, end) ==
    LET found == Find(text, start, 1)
        start_idx == found + Len(start)
        end_idx == Find(text, end, start_idx)
    IN  IF found = 0 THEN <<>>
        ELSE IF end # <<>> /\ end_idx # 0
             THEN Strip(SubSeq(text, start_idx, end_idx - 1))
             ELSE Strip(From(text, start_idx))

\* \w of the regular expressions
IsWordChar(c) == c \in Range(LowerCase) \cup Range(UpperCase) \cup Range(Digits) \cup {"_"}

RECURSIVE SkipWord(_, _)
\* The position after the run of \w characters that starts at i.
SkipWord(text, i) ==
    IF i <= Len(text) /\ IsWordChar(text[i]) THEN SkipWord(text, i + 1) ELSE i

RECURSIVE CodeBlock(_, _)
\* re.search(r'```\w*\n(.*?)\n```', body, re.DOTALL) from position i on: the
\* leftmost fence that is followed by \w*, a newline and, later, a newline and
\* a fence; group(1) lies between the two newlines.
CodeBlock(body, i) ==
    LET open == Find(body, Fence, i)
        nl == SkipWord(body, open + 3)
        close == Find(body, <<"\n">> \o Fence, nl + 1)
    IN  IF open = 0 THEN [matched |-> FALSE, code |-> <<>>]
        ELSE IF nl <= Len(body) /\ body[nl] = "\n" /\ close # 0
             THEN [matched |-> TRUE, code |-> SubSeq(body, nl + 1, close - 1)]
             ELSE CodeBlock(body, open + 1)

Returned(v) == [exc |-> "none", value |-> v]

Raised(e) == [exc |-> e, value |-> EmptyDict]

\* The dict parse_pattern_file returns when the frontmatter is a mapping.
ParsedPattern(metadata, body) ==
    LET code_match == CodeBlock(body, 1)
    IN  [metadata |-> metadata,
         description |-> Strip(extract_section(body, M_Description, M_Code)),
         code |-> IF code_match.matched THEN code_match.code ELSE <<>>,
         setup |-> Strip(extract_section(body, M_Setup, M_Usage)),
         usage |-> Strip(extract_section(body, M_Usage, M_Notes)),
         notes |-> Strip(extract_section(body, M_Notes, <<>>)),
         language |-> Get(metadata, K_language, StrV(S_typescript))]

\* What parse_pattern_file does with what yaml.safe_load made of group(1):
\* yaml.safe_load raises YAMLError on text it cannot parse, and metadata.get
\* raises AttributeError when the frontmatter is not a mapping.
ParseLoaded(loaded, body) ==
    IF loaded.kind = "error" THEN Raised("YAMLError")
    ELSE IF loaded.kind # "mapping" THEN Raised("AttributeError")
    ELSE Returned(ParsedPattern(loaded.map, body))

\* Where group(1) of r'^---\n(.*?)\n---\n(.*)' ends: the text starts with
\* "---\n" and the first "\n---\n" after it closes the frontmatter (0: no match).
FrontmatterEnd(content) ==
    IF MatchAt(content, <<"-","-","-","\n">>, 1)
    THEN Find(content, <<"\n","-","-","-","\n">>, 5) ELSE 0

ParseMatched(content, close) ==
    IF close = 0 THEN Returned(EmptyDict)
    ELSE ParseLoaded(yaml_load(SubSeq(content, 5, close - 1)), From(content, close + 5))

\* parse_pattern_file, applied to the text of the file
parse_pattern_file(content) == ParseMatched(content, FrontmatterEnd(content))

-----------------------------------------------------------------------------
(* The matcher: find_pattern over the files of a domain directory, in the  *)
(* order glob("*.md") enumerates them.                                     *)

\* score > 0.3: the minimum match, as the fraction ThresholdNum / ThresholdDen
ThresholdNum == 3

ThresholdDen == 10

\* A score len(common_words) / max(len(task_words), len(pattern_words)) is kept
\* as the fraction num / den.  Python divides two small integers to the nearest
\* float, and the literal 0.3 is the float nearest to 3/10, so the comparisons
\* of the floats are those of the fractions.
Score(n, d) == [num |-> n, den |-> d]

ZeroScore == Score(0, 1)

Max(a, b) == IF a >= b THEN a ELSE b

ScoreGreaterMutant(a, b) == a.num * b.den >= b.num * a.den

\* a > b
ScoreGreater(a, b) == a.num * b.den > b.num * a.den

\* The label find_pattern reads from a parsed record:
\* pattern.get('metadata', {}).get('task', '')
TaskValue(p) == Get(Get(p, "metadata", EmptyDict), K_task, StrV(<<>>))

\* score = len(common_words) / max(len(task_words), len(pattern_words)), or 0
\* when there is no common word
MatchScore(task_lower, pattern_task) ==
    LET task_words == Words(task_lower)
        pattern_words == Words(pattern_task)
        common_words == task_words \cap pattern_words
    IN  IF common_words # {}
        THEN Score(Cardinality(common_words),
                   Max(Cardinality(task_words), Cardinality(pattern_words)))
        ELSE ZeroScore

ExactMatchMutant(task_lower, pattern_task) == FALSE

\* task_lower == pattern_task
ExactMatch(task_lower, pattern_task) == task_lower = pattern_task

RECURSIVE FindLoop(_, _, _, _, _)
\* Update best match, and on to the next file
Update(task_lower, files, i, best_match, best_score, p, score) ==
    IF ScoreGreater(score, best_score)
         /\ ScoreGreater(score, Score(ThresholdNum, ThresholdDen))
    THEN FindLoop(task_lower, files, i + 1, p, score)
    ELSE FindLoop(task_lower, files, i + 1, best_match, best_score)

\* Check for exact match, else score the word overlap
Compare(task_lower, files, i, best_match, best_score, p, pattern_task) ==
    IF ExactMatch(task_lower, pattern_task) THEN p
    ELSE Update(task_lower, files, i, best_match, best_score, p,
                MatchScore(task_lower, pattern_task))

\* The body of the loop on the parse result of file i.  An exception raised in
\* it (by parse_pattern_file, or by .lower() of a task that is not a str) is
\* caught and the file skipped.
Body(task_lower, files, i, best_match, best_score, parsed, label) ==
    IF parsed.exc # "none" \/ label.t # "str"
    THEN FindLoop(task_lower, files, i + 1, best_match, best_score)
    ELSE Compare(task_lower, files, i, best_match, best_score, parsed.value, Lower(label.s))

Parsed(task_lower, files, i, best_match, best_score, parsed) ==
    Body(task_lower, files, i, best_match, best_score, parsed, TaskValue(parsed.value))

\* The loop of find_pattern from file i on.
FindLoop(task_lower, files, i, best_match, best_score) ==
    IF i > Len(files) THEN best_match
    ELSE Parsed(task_lower, files, i, best_match, best_score, parse_pattern_file(files[i]))

\* find_pattern(task) in a directory that enumerates as `files`
find_pattern(t, files) == FindLoop(Lower(t), files, 1, None, ZeroScore)

-----------------------------------------------------------------------------
(* Function-level specifications: the input of the function under test is  *)
(* drawn in arg by the initial predicate, and one action applies the       *)
(* function and leaves its result in ret.  No agent runs meanwhile.        *)

\* The domains that have a directory under .ai/patterns/: those of the two
\* concrete agents and that of an agent which implements create_pattern.
Domains == {"frontend", "infrastructure", "api"}

NotCalled == [pending |-> TRUE]

Called == "pending" \notin DOMAIN ret

\* No exception.
NoExc == [type |-> "none", task |-> <<>>, errors |-> <<>>, dir |-> "none"]

\* No execute() is running and nothing has been stored or logged.
ExecQuiet ==
    /\ store = [d \in Domains |-> EmptyDict]
    /\ metrics = <<>>
    /\ errors = <<>>
    /\ pc = "idle"
    /\ agent = "none"
    /\ task = <<>>
    /\ pattern = None
    /\ gen_code = <<>>
    /\ exc = NoExc
    /\ response = None
    /\ written = <<>>
    /\ hit = None
    /\ outcomes = <<>>
    /\ calls = 0

-----------------------------------------------------------------------------
(* validate_pattern on bounded pattern records *)

\* Code bodies run from MinCodeLen - LenSlack to MinCodeLen + LenSlack characters.
LenSlack == 5

\* Complexities run from 0 to MaxComplexityIn.
MaxComplexityIn == 7

S_Todo == <<"T","o","d","o">>

\* What a code body ends with: nothing, an incomplete-work marker, or a word
\* that is not one.
CodeEndings == {<<>>, S_TODO, S_pass, S_Todo}

CodeLengths == {0, 40} \cup ((MinCodeLen - LenSlack)..(MinCodeLen + LenSlack))

CodeInputs ==
    {Repeat("x", n) \o e \o w :
        n \in CodeLengths, e \in CodeEndings, w \in {<<>>, <<" ", "\n">>}}

\* The value a required key has when it is present.
MetaValue(k, c) ==
    CASE k = K_task -> StrV(<<"a", " ", "b">>)
      [] k = K_complexity -> IntV(c)
      [] OTHER -> ListV(<<>>)

MetadataInputs ==
    {[k \in ks |-> MetaValue(k, c)] :
        ks \in SUBSET Range(required_metadata), c \in 0..MaxComplexityIn}

ValidateInputs ==
    {[metadata |-> md, code |-> code] : md \in MetadataInputs, code \in CodeInputs}
      \cup {[metadata |-> md] : md \in MetadataInputs}
      \cup {[code |-> code] : code \in CodeInputs}

InitValidate == arg \in ValidateInputs /\ ret = NotCalled /\ ExecQuiet

Validate ==
    /\ ret = NotCalled
    /\ ret' = validate_pattern(arg)
    /\ UNCHANGED <<arg, execVars>>

NextValidate == Validate

SpecValidate == InitValidate /\ [][NextValidate]_vars

ArgMetadata == Get(arg, "metadata", EmptyDict)

ArgCode == Get(arg, "code", <<>>)

ArgComplexity == Get(ArgMetadata, K_complexity, IntV(0)).n

HasSubstring(text, pat) ==
    \E i \in 1..Len(text) : i + Len(pat) - 1 <= Len(text) /\ SubSeq(text, i, i + Len(pat) - 1) = pat

\* The record of arg has no error-worthy defect.
ArgSound ==
    /\ \A i \in DOMAIN required_metadata : required_metadata[i] \in DOMAIN ArgMetadata
    /\ Len(Strip(ArgCode)) >= MinCodeLen
    /\ ~HasSubstring(ArgCode, S_TODO)
    /\ ~HasSubstring(ArgCode, S_pass)

\* C6: validate_pattern returns valid = true iff its errors list is empty, and
\* the errors list is empty iff the four required keys are in the metadata, the
\* trimmed code has at least 50 characters and the code contains neither TODO
\* nor pass; the warnings have no part in it.
C6_ValidIffSound ==
    Called => /\ ret.valid <=> (ret.errors = <<>>)
              /\ (ret.errors = <<>>) <=> ArgSound

\* A sound record with exactly 50 characters of trimmed code and a warning is
\* validated as valid.
C6_Witness ==
    /\ Called /\ ret.valid /\ ArgSound
    /\ Len(Strip(ArgCode)) = MinCodeLen /\ Len(ArgCode) > MinCodeLen
    /\ ret.warnings # <<>>

Count(seq, x) == Cardinality({i \in DOMAIN seq : seq[i] = x})

\* C7: each defect is reported on its own: one error naming each missing
\* required key and none naming any other; the code-length error exactly when
\* the trimmed code is shorter than 50 characters (40, for one); and one
\* warning, which leaves valid alone, exactly when the complexity is above 5.
C7_EachDefectReported ==
    Called =>
      /\ \A i \in DOMAIN required_metadata :
           Count(ret.errors, MissingMetadata(required_metadata[i]))
             = IF required_metadata[i] \in DOMAIN ArgMetadata THEN 0 ELSE 1
      /\ \A i \in DOMAIN ret.errors :
           ret.errors[i].msg = "Missing required metadata"
             => ret.errors[i].field \in Range(required_metadata)
      /\ Count(ret.errors, CodeTooShort) = IF Len(Strip(ArgCode)) < MinCodeLen THEN 1 ELSE 0
      /\ Len(ArgCode) = 40 => Count(ret.errors, CodeTooShort) = 1
      /\ ArgComplexity > MaxComplexity => Len(ret.warnings) = 1
      /\ ArgComplexity <= MaxComplexity => ret.warnings = <<>>
      /\ (ArgSound /\ ArgComplexity > MaxComplexity)
           => ret.valid /\ ret.errors = <<>> /\ Len(ret.warnings) = 1

\* An otherwise valid pattern of complexity 7 is valid, with one warning.
C7_Witness ==
    /\ Called /\ ArgSound /\ ArgComplexity = 7
    /\ ret.valid /\ Len(ret.warnings) = 1 /\ ret.errors = <<>>

-----------------------------------------------------------------------------
(* The codec on bounded inputs: a pattern record is formatted and the text *)
(* parsed back, or a document of the pool is parsed.                       *)

\* The free-text sections are 0 to MaxSectionLen words long.
MaxSectionLen == 1

RECURSIVE Sentence(_)
\* n words separated by single spaces
Sentence(n) ==
    IF n = 0 THEN <<>>
    ELSE IF n = 1 THEN <<"w">>
    ELSE Sentence(n - 1) \o <<" ", "w">>

SectionInputs == {Sentence(n) : n \in 0..MaxSectionLen}

S_bash == <<"b","a","s","h">>

\* Caller-supplied metadata: the four required keys, with or without language.
CodecMetadata ==
    LET base == [k \in Range(required_metadata) |->
                   CASE k = K_task -> StrV(<<"A", "d", "d", " ", "n", "a", "v">>)
                     [] k = K_complexity -> IntV(2)
                     [] k = K_tags -> ListV(<<<<"u", "i">>, <<"n", "a", "v">>>>)
                     [] OTHER -> ListV(<<>>)]
    IN  {base, Put(base, K_language, StrV(S_bash))}

CodecCode == {<<"l", "s", " ", "-", "l">>, <<"a", "\n", "b">>}

\* Records as create_pattern hands them to save_pattern; setup may be absent.
PatternInputs ==
    {[metadata |-> md, description |-> d, setup |-> s, usage |-> u, notes |-> n,
      code |-> c, language |-> Get(md, K_language, StrV(S_typescript))] :
        md \in CodecMetadata, d \in SectionInputs, s \in SectionInputs,
        u \in SectionInputs, n \in SectionInputs, c \in CodecCode}
    \cup
    {[metadata |-> md, description |-> d, usage |-> u, notes |-> n, code |-> c] :
        md \in CodecMetadata, d \in SectionInputs,
        u \in SectionInputs, n \in SectionInputs, c \in CodecCode}

\* Documents as they may lie in the store, with the shape each has: ok (a
\* frontmatter block that is a mapping, then the body), no_frontmatter,
\* empty_frontmatter, not_mapping (a sequence or a scalar) and unparsable.
DocPool == {
    [shape |-> "ok", text |->
        <<"-","-","-","\n","t","a","s","k",":"," ","a"," ","b","\n","-","-",
          "-","\n","#","#"," ","C","o","d","e","\n",Backtick,Backtick,Backtick,"t","s",
          "\n","x","\n",Backtick,Backtick,Backtick,"\n">>],
    [shape |-> "no_frontmatter", text |->
        <<"#"," ","a"," ","b","\n","\n","n","o"," ","m","e","t","a","d","a",
          "t","a","\n">>],
    [shape |-> "no_frontmatter", text |->
        <<"-","-","-","\n","t","a","s","k",":"," ","a"," ","b","\n","n","o",
          " ","c","l","o","s","i","n","g"," ","l","i","n","e","\n">>],
    [shape |-> "empty_frontmatter", text |->
        <<"-","-","-","\n","-","-","-","\n","b","o","d","y","\n">>],
    [shape |-> "empty_frontmatter", text |->
        <<"-","-","-","\n","\n","-","-","-","\n","b","o","d","y","\n">>],
    [shape |-> "not_mapping", text |->
        <<"-","-","-","\n","-"," ","a","\n","-"," ","b","\n","-","-","-",
          "\n","b","o","d","y","\n">>],
    [shape |-> "not_mapping", text |->
        <<"-","-","-","\n","j","u","s","t"," ","t","e","x","t","\n","-","-",
          "-","\n","b","o","d","y","\n">>],
    [shape |-> "unparsable", text |->
        <<"-","-","-","\n","t","a","s","k",":"," ","[","a","\n","-","-","-",
          "\n","b","o","d","y","\n">>]}

InitCodec ==
    /\ \/ \E p \in PatternInputs : arg = [pattern |-> p, shape |-> "formatted", text |-> <<>>, stage |-> "pattern"]
       \/ \E d \in DocPool : arg = [pattern |-> None, shape |-> d.shape, text |-> d.text, stage |-> "text"]
    /\ ret = NotCalled
    /\ ExecQuiet

\* save_pattern's content = self.format_pattern_markdown(pattern)
Format ==
    /\ arg.stage = "pattern"
    /\ arg' = [arg EXCEPT !.text = format_pattern_markdown(arg.pattern), !.stage = "text"]
    /\ UNCHANGED <<ret, execVars>>

\* parse_pattern_file on the text
Parse ==
    /\ arg.stage = "text"
    /\ ret = NotCalled
    /\ ret' = parse_pattern_file(arg.text)
    /\ UNCHANGED <<arg, execVars>>

NextCodec == Format \/ Parse

SpecCodec == InitCodec /\ [][NextCodec]_vars

\* The text of a formatted pattern has been parsed back.
RoundTripped == Called /\ arg.shape = "formatted"

\* C4: parse_pattern_file of the text format_pattern_markdown made of a record
\* p reproduces p's description, code, setup, usage and notes and every
\* metadata key and value the caller supplied.
C4_RoundTrip ==
    RoundTripped =>
      /\ ret.exc = "none"
      /\ DOMAIN ret.value # {}
      /\ ret.value.description = Get(arg.pattern, "description", <<>>)
      /\ ret.value.code = Get(arg.pattern, "code", <<>>)
      /\ ret.value.setup = Get(arg.pattern, "setup", S_NoSetup)
      /\ ret.value.usage = Get(arg.pattern, "usage", <<>>)
      /\ ret.value.notes = Get(arg.pattern, "notes", <<>>)
      /\ \A k \in DOMAIN arg.pattern.metadata :
           /\ k \in DOMAIN ret.value.metadata
           /\ ret.value.metadata[k] = arg.pattern.metadata[k]

\* C5: parse_pattern_file returns {} and raises nothing on every document
\* that lacks the shape `---` line, YAML mapping, `---` line, body.
C5_MalformedYieldsEmpty ==
    (Called /\ arg.shape \notin {"ok", "formatted"})
      => ret.exc = "none" /\ DOMAIN ret.value = {}

-----------------------------------------------------------------------------
(* find_pattern on bounded stores: the files of a directory, in the order  *)
(* the file system lists them, and a task.                                 *)

\* A directory holds at most MaxFiles pattern files.
MaxFiles == 3

RECURSIVE Spaced(_)
\* The words of ws separated by single spaces.
Spaced(ws) ==
    IF ws = <<>> THEN <<>>
    ELSE IF Len(ws) = 1 THEN ws[1]
    ELSE ws[1] \o <<" ">> \o Spaced(Tail(ws))

\* Words of one letter: the i-th to the j-th letter of the alphabet.
Letters(i, j) == [k \in 1..(j - i + 1) |-> <<LowerCase[i + k - 1]>>]

\* A hand-written pattern file whose frontmatter holds the task label alone.
LabelledFile(label) ==
    <<"-","-","-","\n">> \o K_task \o <<":", " ">> \o label \o <<"\n","-","-","-","\n">>
      \o <<"#"," ">> \o label \o <<"\n">>

\* A task of twenty words, and the labels that share 5, 6, 7 and 10 of them.
LongTask == <<"A", " ">> \o Spaced(Letters(2, 20))

ShortTask == <<"A", " ", "b">>

TaskInputs == {LongTask, ShortTask, <<>>}

FilePool ==
    { LabelledFile(<<"a", " ", "B", " ">> \o Spaced(Letters(3, 5))),
      LabelledFile(Spaced(Letters(1, 6))),
      LabelledFile(Spaced(Letters(1, 7))),
      LabelledFile(Spaced(Letters(1, 10))),
      LabelledFile(Spaced(Letters(11, 20))),
      LabelledFile(<<"b", " ", " ", "A">>),
      LabelledFile(<<"a", " ", "B">>),
      \* no frontmatter
      <<"#", " ", "a", " ", "b", "\n">>,
      \* the frontmatter is a sequence
      <<"-","-","-","\n", "-", " ", "a", "\n", "-", " ", "b", "\n", "-","-","-","\n">>,
      \* a mapping without a task
      <<"-","-","-","\n">> \o K_complexity \o <<":", " ", "1", "\n", "-","-","-","\n">> }

\* The listings of at most MaxFiles distinct files of the pool, in any order.
Listings ==
    UNION {{s \in [1..n -> FilePool] : \A i, j \in 1..n : s[i] = s[j] => i = j} :
             n \in 0..MaxFiles}

InitMatch ==
    /\ \E t \in TaskInputs, fs \in Listings : arg = [task |-> t, files |-> fs]
    /\ ret = NotCalled
    /\ ExecQuiet

\* find_pattern(task) over the listing
Match ==
    /\ ret = NotCalled
    /\ ret' = [value |-> find_pattern(arg.task, arg.files)]
    /\ UNCHANGED <<arg, execVars>>

NextMatch == Match

SpecMatch == InitMatch /\ [][NextMatch]_vars

\* What find_pattern can read of the i-th file of the listing: whether the body
\* of its loop runs without an exception, the parsed record and its label.
Candidate(i) ==
    LET p == parse_pattern_file(arg.files[i])
    IN  [readable |-> p.exc = "none" /\ TaskValue(p.value).t = "str",
         record |-> p.value,
         label |-> Lower(TaskValue(p.value).s)]

Candidates == [i \in DOMAIN arg.files |-> Candidate(i)]

ExactAt(cs, i) == cs[i].readable /\ cs[i].label = Lower(arg.task)

\* C1: when some candidate's label equals the task after lower-casing both,
\* find_pattern returns a candidate whose lower-cased label equals the
\* lower-cased task, wherever it is listed and whatever the others score.
C1_ExactMatchReturned ==
    LET cs == Candidates
    IN  (Called /\ \E i \in DOMAIN cs : ExactAt(cs, i))
          => /\ ~IsNone(ret.value)
             /\ \E i \in DOMAIN cs : ExactAt(cs, i) /\ ret.value = cs[i].record
             /\ Lower(TaskValue(ret.value).s) = Lower(arg.task)

\* The exact match is listed last, after a candidate whose words are all the
\* task's (score 1) and one above the threshold, and it is what is returned.
C1_Witness ==
    LET cs == Candidates
    IN  /\ Called /\ Len(arg.files) = 3 /\ arg.task = ShortTask
        /\ ExactAt(cs, 3)
        /\ Words(cs[1].label) = Words(Lower(arg.task)) /\ ~ExactAt(cs, 1)
        /\ cs[2].readable /\ ~ExactAt(cs, 2)
        /\ ret.value = cs[3].record

Overlap(cs, i) == Cardinality(Words(Lower(arg.task)) \cap Words(cs[i].label))

Larger(cs, i) ==
    LET a == Cardinality(Words(Lower(arg.task)))
        b == Cardinality(Words(cs[i].label))
    IN  IF a >= b THEN a ELSE b

\* Candidate i scores strictly more than candidate j.
Outscores(cs, i, j) == Overlap(cs, i) * Larger(cs, j) > Overlap(cs, j) * Larger(cs, i)

\* Candidate i is the earliest of those with the maximal score, and that
\* score is above 0.3.
EarliestBest(cs, i) ==
    /\ cs[i].readable
    /\ 10 * Overlap(cs, i) > 3 * Larger(cs, i)
    /\ \A j \in DOMAIN cs : cs[j].readable => ~Outscores(cs, j, i)
    /\ \A j \in 1..(i - 1) : cs[j].readable => Outscores(cs, i, j)

Malformed(file) ==
    LET p == parse_pattern_file(file)
    IN  p.exc # "none" \/ DOMAIN p.value = {}

\* C3: find_pattern raises nothing and returns what it would return with the
\* malformed files out of the store, so either a parsed pattern record or None.
C3_MalformedSkipped ==
    LET wellformed(f) == ~Malformed(f)
    IN  Called =>
          /\ ret.value = find_pattern(arg.task, SelectSeq(arg.files, wellformed))
          /\ IsNone(ret.value) \/ DOMAIN ret.value # {}

-----------------------------------------------------------------------------
(* find_pattern called again and again by one agent on one directory: the  *)
(* calls made so far, each with its task and its result, are kept in ret.   *)

\* At most MaxRecalls calls are made.
MaxRecalls == 3

\* The listings of at most two files of the pool.
RecallListings == {fs \in Listings : Len(fs) <= 2}

InitRecall ==
    /\ \E t \in TaskInputs, fs \in RecallListings : \E u \in TaskInputs \ {t} :
         arg = [task |-> t, other |-> u, files |-> fs]
    /\ ret = <<>>
    /\ ExecQuiet

RecallMutant ==
    /\ Len(ret) < MaxRecalls
    /\ \E t \in {arg.task, arg.other} :
         LET found == find_pattern(t, arg.files)
         IN  ret' = Append(ret, [task |-> t,
                                 value |-> IF IsNone(found) /\ ret # <<>>
                                           THEN ret[Len(ret)].value ELSE found])
    /\ UNCHANGED <<arg, execVars>>

\* find_pattern(t) for one of the two tasks, on the same listing: it reads the
\* files and keeps nothing but locals.
Recall ==
    /\ Len(ret) < MaxRecalls
    /\ \E t \in {arg.task, arg.other} :
         ret' = Append(ret, [task |-> t, value |-> find_pattern(t, arg.files)])
    /\ UNCHANGED <<arg, execVars>>

NextRecall == Recall

SpecRecall == InitRecall /\ [][NextRecall]_vars

-----------------------------------------------------------------------------
(* Agent selection: Orchestrator.determine_agent, and the selection at the  *)
(* head of PatternFrameworkServer.generate_from_pattern.                    *)

infrastructure_keywords ==
    <<
      <<"s","e","t","u","p">>,
      <<"i","n","s","t","a","l","l">>,
      <<"d","e","p","l","o","y">>,
      <<"c","o","n","f","i","g">>,
      <<"b","u","i","l","d">>,
      <<"n","e","x","t","j","s">>,
      <<"n","e","x","t",".","j","s">>,
      <<"p","r","o","j","e","c","t">> >>

frontend_ui_keywords ==
    <<
      <<"c","o","m","p","o","n","e","n","t">>,
      <<"u","i">>,
      <<"b","u","t","t","o","n">>,
      <<"f","o","r","m">>,
      <<"l","a","y","o","u","t">>,
      <<"p","a","g","e">>,
      <<"h","o","m","e","p","a","g","e">>,
      <<"n","a","v","i","g","a","t","i","o","n">> >>

\* agent_keywords, in the order the dict is written and iterated.
agent_keywords ==
    << [agent_name |-> "infrastructure", keywords |-> infrastructure_keywords],
       [agent_name |-> "frontend_ui", keywords |-> frontend_ui_keywords] >>

\* any(keyword in task_lower for keyword in keywords)
AnyKeyword(task_lower, keywords) ==
    \E i \in DOMAIN keywords : Contains(task_lower, keywords[i])

RECURSIVE DetermineLoop(_, _)
\* for agent_name, keywords in agent_keywords.items(), from entry i on, and the
\* default after the loop.
DetermineLoop(task_lower, i) ==
    IF i > Len(agent_keywords) THEN "frontend_ui"
    ELSE IF AnyKeyword(task_lower, agent_keywords[i].keywords)
         THEN agent_keywords[i].agent_name
         ELSE DetermineLoop(task_lower, i + 1)

determine_agentMutant(t) == DetermineLoop(t, 1)

\* Orchestrator.determine_agent(task)
determine_agent(t) == DetermineLoop(Lower(t), 1)

\* The keywords the server tests the task against.
server_keywords ==
    <<
      <<"s","e","t","u","p">>,
      <<"i","n","s","t","a","l","l">>,
      <<"d","e","p","l","o","y">>,
      <<"c","o","n","f","i","g">>,
      <<"n","e","x","t","j","s">>,
      <<"p","r","o","j","e","c","t">> >>

\* The agent generate_from_pattern of the server picks: self.agents
\* ['infrastructure'] is the InfrastructureAgent, self.agents['frontend'] the
\* FrontendUIAgent.
ServerAgent(t) ==
    IF AnyKeyword(Lower(t), server_keywords) THEN "infrastructure" ELSE "frontend_ui"

\* A task has at most MaxWords words.
MaxWords == 2

\* Words with and without keywords ("guide" holds the keyword "ui"), in lower
\* and in upper case.
WordPool ==
    LET ws == {<<"s","e","t","u","p">>,
               <<"b","u","i","l","d">>,
               <<"n","e","x","t",".","j","s">>,
               <<"p","r","o","j","e","c","t">>,
               <<"b","u","t","t","o","n">>,
               <<"h","o","m","e","p","a","g","e">>,
               <<"g","u","i","d","e">>,
               <<"h","e","l","l","o">>}
    IN  ws \cup {Upper(w) : w \in ws}

S_SetupNextjsProject ==
    <<"s","e","t","u","p"," ","n","e","x","t","j","s"," ","p","r","o","j",
      "e","c","t">>

\* The tasks of at most MaxWords words of the pool, and 'setup nextjs project'
\* in both letter cases.
DispatchTasks ==
    {Spaced(ws) : ws \in UNION {[1..n -> WordPool] : n \in 0..MaxWords}}
      \cup {S_SetupNextjsProject, Upper(S_SetupNextjsProject)}

InitDispatch ==
    /\ \E t \in DispatchTasks : arg = [task |-> t]
    /\ ret = NotCalled
    /\ ExecQuiet

\* orchestrator.determine_agent(task)
Determine ==
    /\ ret = NotCalled
    /\ ret' = [by |-> "orchestrator", value |-> determine_agent(arg.task)]
    /\ UNCHANGED <<arg, execVars>>

\* The selection of the server for the task
ServerSelect ==
    /\ ret = NotCalled
    /\ ret' = [by |-> "server", value |-> ServerAgent(arg.task)]
    /\ UNCHANGED <<arg, execVars>>

NextDispatch == Determine \/ ServerSelect

SpecDispatch == InitDispatch /\ [][NextDispatch]_vars

\* The task holds one of the keywords in some letter case: a stretch of the
\* task is the keyword once lower-cased.
Holds(t, keywords) ==
    \E k \in DOMAIN keywords : \E i \in 1..Len(t) : \E j \in i..Len(t) :
        Lower(SubSeq(t, i, j)) = keywords[k]

\* C11: determine_agent sends a task that holds an infrastructure keyword in
\* any letter case to infrastructure, whatever frontend keywords it holds, a
\* task that holds a frontend keyword only to frontend_ui, and a task that
\* holds no keyword to frontend_ui.
C11_InfrastructureFirst ==
    (Called /\ ret.by = "orchestrator")
      => ret.value = IF Holds(arg.task, infrastructure_keywords)
                     THEN "infrastructure" ELSE "frontend_ui"

\* 'SETUP BUTTON' holds a keyword of each set and goes to infrastructure.
C11_Witness ==
    /\ Called /\ ret.by = "orchestrator"
    /\ arg.task # Lower(arg.task)
    /\ Holds(arg.task, infrastructure_keywords)
    /\ Holds(arg.task, frontend_ui_keywords)
    /\ ret.value = "infrastructure"

\* C16: the server picks the agent determine_agent picks for the task.
C16_LayersAgree ==
    (Called /\ ret.by = "server") => ret.value = determine_agent(arg.task)

-----------------------------------------------------------------------------
(* The execute pipeline of an agent: MATCH, then on a miss CREATE, VALIDATE *)
(* and PERSIST, then EXTRACT and the metrics write; an exception raised in  *)
(* the try block is handled by handle_error.                                *)

\* At most MaxCalls invocations of execute() are made.
MaxCalls == 2

\* The two concrete agents, and an agent whose create_pattern returns a record
\* (the abstract method of PatternFirstAgent, implemented).
ConcreteAgents == {"frontend_ui", "infrastructure"}

Agents == ConcreteAgents \cup {"api"}

\* The domain an agent is constructed with: super().__init__(domain)
DomainOf(a) ==
    CASE a = "frontend_ui" -> "frontend"
      [] a = "infrastructure" -> "infrastructure"
      [] OTHER -> "api"

T_homepage ==
    <<"c","r","e","a","t","e"," ","h","o","m","e","p","a","g","e">>

T_nextjs ==
    <<"s","e","t","u","p"," ","n","e","x","t","j","s"," ","p","r","o","j",
      "e","c","t">>

\* A task that shares one word of two with 'Create Homepage'.
T_build ==
    <<"B","u","i","l","d"," ","H","o","m","e","p","a","g","e">>

ExecTasks == {T_homepage, T_nextjs, T_build}

\* save_pattern slices the file name to 50 characters.
SlugMax == 50

RECURSIVE Collapse(_, _)
\* re.sub(r'[-\s]+', '-', s): every run of hyphens and whitespace becomes one
\* hyphen; inrun says that the run has been written already.
Collapse(s, inrun) ==
    IF s = <<>> THEN <<>>
    ELSE IF Head(s) = "-" \/ Head(s) \in Whitespace
         THEN (IF inrun THEN <<>> ELSE <<"-">>) \o Collapse(Tail(s), TRUE)
         ELSE <<Head(s)>> \o Collapse(Tail(s), FALSE)

\* The file name save_pattern derives from the task.
Slug(t) ==
    LET kept(c) == IsWordChar(c) \/ c \in Whitespace \/ c = "-"
        collapsed == Collapse(SelectSeq(Lower(t), kept), FALSE)
    IN  SubSeq(collapsed, 1, IF Len(collapsed) < SlugMax THEN Len(collapsed) ELSE SlugMax)
          \o <<".", "m", "d">>

\* Pattern files written by hand before any agent runs.
SeedHomepage ==
    <<"-","-","-","\n","t","a","s","k",":"," ","C","r","e","a","t","e"," ",
      "H","o","m","e","p","a","g","e","\n","c","o","m","p","l","e","x","i",
      "t","y",":"," ","2","\n","t","a","g","s",":"," ","[","u","i",","," ",
      "p","a","g","e","]","\n","d","e","p","e","n","d","e","n","c","i","e",
      "s",":"," ","[","]","\n","-","-","-","\n","\n","#"," ","C","r","e",
      "a","t","e"," ","H","o","m","e","p","a","g","e","\n","\n","#","#"," ",
      "D","e","s","c","r","i","p","t","i","o","n","\n","T","h","e"," ","l",
      "a","n","d","i","n","g"," ","p","a","g","e","\n","\n","#","#"," ","C",
      "o","d","e","\n",Backtick,Backtick,Backtick,"t","s","x","\n","e","x","p","o","r","t",
      " ","d","e","f","a","u","l","t"," ","f","u","n","c","t","i","o","n",
      " ","H","o","m","e","(",")"," ","{"," ","r","e","t","u","r","n"," ",
      "<","m","a","i","n",">","H","o","m","e","<","/","m","a","i","n",">",
      " ","}","\n",Backtick,Backtick,Backtick,"\n">>

SeedNotes == <<"#", " ", "n", "o", "t", "e", "s", "\n">>

F_homepage == <<"h","o","m","e","p","a","g","e",".","m","d">>

F_notes == <<"n","o","t","e","s",".","m","d">>

\* The files a domain directory may hold at the start: a pattern for the
\* homepage under frontend, a file without frontmatter under infrastructure.
SeedFiles(d) ==
    CASE d = "frontend" -> [f \in {F_homepage} |-> SeedHomepage]
      [] d = "infrastructure" -> [f \in {F_notes} |-> SeedNotes]
      [] OTHER -> EmptyDict

Restrict(f, S) == [x \in S |-> f[x]]

\* Every choice of seed files that are there at the start.
StoreInputs ==
    {[d \in Domains |-> Restrict(SeedFiles(d), DOMAIN SeedFiles(d) \cap S)] :
        S \in SUBSET {F_homepage, F_notes}}

GoodCode ==
    <<"e","x","p","o","r","t"," ","d","e","f","a","u","l","t"," ","f","u",
      "n","c","t","i","o","n"," ","H","o","m","e","(",")"," ","{"," ","r",
      "e","t","u","r","n"," ","<","m","a","i","n",">","H","o","m","e","<",
      "/","m","a","i","n",">"," ","}">>

\* The records the implemented create_pattern may return for a task: a sound
\* one, one of complexity 7, one without dependencies, one with 40 characters
\* of code and one with an incomplete-work marker.
CreatedRecord(t, keys, c, complexity) ==
    [metadata |-> [k \in keys |->
                     CASE k = K_task -> StrV(t)
                       [] k = K_complexity -> IntV(complexity)
                       [] OTHER -> ListV(<<>>)],
     description |-> <<"w">>,
     code |-> c]

CreatedRecords(t) ==
    { CreatedRecord(t, Range(required_metadata), GoodCode, 2),
      CreatedRecord(t, Range(required_metadata), GoodCode, 7),
      CreatedRecord(t, Range(required_metadata) \ {K_dependencies}, GoodCode, 2),
      CreatedRecord(t, Range(required_metadata), SubSeq(GoodCode, 1, 40), 2),
      CreatedRecord(t, Range(required_metadata), GoodCode \o <<" ", "/", "/", " ">> \o S_TODO, 2) }

\* The orders in which glob("*.md") may list the files of a directory.
ListingsOf(dir) ==
    {s \in [1..Cardinality(DOMAIN dir) -> DOMAIN dir] :
        \A i, j \in DOMAIN s : s[i] = s[j] => i = j}

Exception(type, t, errs, dir) == [type |-> type, task |-> t, errors |-> errs, dir |-> dir]

Running == pc \notin {"idle", "done", "failed"}

\* execute() has returned to the server, which has not returned yet.
ReturnPending == pc \in {"done", "failed"} /\ arg # NotCalled /\ ret = NotCalled

\* execute(task) of agent a is entered.
Enter(a, t) ==
    /\ ~Running
    /\ ~ReturnPending
    /\ calls < MaxCalls
    /\ calls' = calls + 1
    /\ agent' = a
    /\ task' = t
    /\ pc' = "match"
    /\ pattern' = None
    /\ gen_code' = <<>>
    /\ exc' = NoExc
    /\ response' = None
    /\ hit' = None
    /\ UNCHANGED <<store, metrics, errors, written, outcomes>>

\* agent.execute(task) is called directly (the __main__ of the agent's file).
Start(a, t) ==
    /\ Enter(a, t)
    /\ arg' = NotCalled
    /\ ret' = NotCalled

\* server.generate_from_pattern(task) is called: it selects the agent and
\* calls agent.execute(task).
ServerGenerate(t) ==
    /\ Enter(ServerAgent(t), t)
    /\ arg' = [task |-> t, via |-> "server"]
    /\ ret' = NotCalled

MatchedMutant(p) ==
    /\ pattern' = p
    /\ hit' = p
    /\ pc' = IF Truthy(p) THEN "create" ELSE "extract"

\* `if not pattern` decides between CREATE and EXTRACT.
Matched(p) ==
    /\ pattern' = p
    /\ hit' = p
    /\ pc' = IF Truthy(p) THEN "extract" ELSE "create"

\* The texts of the files of dir, in the order `order` names them.
Texts(dir, order) == [i \in DOMAIN order |-> dir[order[i]]]

\* 1. pattern = self.find_pattern(task)
MatchStep ==
    /\ pc = "match"
    /\ \E order \in ListingsOf(store[DomainOf(agent)]) :
         Matched(find_pattern(task, Texts(store[DomainOf(agent)], order)))
    /\ UNCHANGED <<store, metrics, errors, agent, task, gen_code, exc, response,
                   written, outcomes, calls, arg, ret>>

CreateSupportedMutant(a) == TRUE

\* Whether the agent's create_pattern returns a record; those of
\* FrontendUIAgent and InfrastructureAgent raise NotImplementedError.
CreateSupported(a) == a \notin ConcreteAgents

\* 2. pattern = self.create_pattern(task)
CreateStep ==
    /\ pc = "create"
    /\ IF CreateSupported(agent)
       THEN /\ \E p \in CreatedRecords(task) : pattern' = p
            /\ pc' = "validate"
            /\ exc' = exc
       ELSE /\ exc' = Exception("NotImplementedError", task, <<>>, DomainOf(agent))
            /\ pc' = "error"
            /\ pattern' = pattern
    /\ UNCHANGED <<store, metrics, errors, agent, task, gen_code, response,
                   written, hit, outcomes, calls, arg, ret>>

ValidationFailedMutant(result) == FALSE

\* if not validation_result['valid']
ValidationFailed(result) == ~result.valid

\* 3. validate_pattern(pattern), and ValueError with the errors when not valid
ValidateStep ==
    /\ pc = "validate"
    /\ LET validation_result == validate_pattern(pattern)
       IN  IF ValidationFailed(validation_result)
           THEN /\ exc' = Exception("ValueError", task, validation_result.errors, DomainOf(agent))
                /\ pc' = "error"
           ELSE /\ exc' = exc
                /\ pc' = "persist"
    /\ UNCHANGED <<store, metrics, errors, agent, task, pattern, gen_code, response,
                   written, hit, outcomes, calls, arg, ret>>

\* 4. save_pattern(pattern, task): the formatted record is written to
\* <patterns_dir>/<slug>.md, and format_pattern_markdown has stamped the
\* record's metadata in place; or write_text fails and raises OSError.
PersistStep ==
    /\ pc = "persist"
    /\ \/ /\ store' = [store EXCEPT ![DomainOf(agent)] =
                          Put(@, Slug(task), format_pattern_markdown(pattern))]
          /\ written' = Append(written, [call |-> calls, domain |-> DomainOf(agent),
                                         file |-> Slug(task), record |-> pattern])
          /\ pattern' = IF "metadata" \in DOMAIN pattern
                        THEN [pattern EXCEPT !.metadata = Stamped(@)] ELSE pattern
          /\ pc' = "extract"
          /\ exc' = exc
       \/ /\ exc' = Exception("OSError", task, <<>>, DomainOf(agent))
          /\ pc' = "error"
          /\ UNCHANGED <<store, written, pattern>>
    /\ UNCHANGED <<metrics, errors, agent, task, gen_code, response, hit,
                   outcomes, calls, arg, ret>>

generate_from_patternMutant(p, t) == Get(p, "code", <<>>) \o <<" ">> \o t

\* generate_from_pattern(pattern, task)
generate_from_pattern(p, t) == Get(p, "code", <<>>)

\* 5. code = self.generate_from_pattern(pattern, task)
ExtractStep ==
    /\ pc = "extract"
    /\ gen_code' = generate_from_pattern(pattern, task)
    /\ pc' = "log"
    /\ UNCHANGED <<store, metrics, errors, agent, task, pattern, exc, response,
                   written, hit, outcomes, calls, arg, ret>>

\* The record log_metrics appends (its timestamp left out).
MetricsRecord(t, d, pattern_reused, dir) ==
    [task |-> t, domain |-> d, pattern_reused |-> pattern_reused,
     patterns_total |-> Cardinality(DOMAIN dir)]

log_metricsMutant(log, record) == log

\* log_metrics appends one line to metrics.jsonl.
log_metrics(log, record) == Append(log, record)

\* 6. self.log_metrics(task, pattern is not None), then return code
LogStep ==
    /\ pc = "log"
    /\ metrics' = log_metrics(metrics, MetricsRecord(task, DomainOf(agent), ~IsNone(pattern),
                                                     store[DomainOf(agent)]))
    /\ response' = [kind |-> "code", text |-> gen_code, error |-> NoExc, patterns_dir |-> "none"]
    /\ outcomes' = Append(outcomes, "done")
    /\ pc' = "done"
    /\ UNCHANGED <<store, errors, agent, task, pattern, gen_code, exc, written, hit,
                   calls, arg, ret>>

\* The text handle_error returns: the error message (the task and str(error))
\* and, as the fallback action, the agent's pattern directory.
ErrorResponse(e, t, dir) ==
    [kind |-> "error", text |-> t, error |-> e, patterns_dir |-> dir]

\* log_error appends one line to errors.log.
log_error(log, line) == Append(log, line)

\* except Exception as e: return self.handle_error(e, task), which logs one
\* line to errors.log
HandleError ==
    /\ pc = "error"
    /\ errors' = log_error(errors, [task |-> task, error |-> exc])
    /\ response' = ErrorResponse(exc, task, DomainOf(agent))
    /\ outcomes' = Append(outcomes, "error")
    /\ pc' = "failed"
    /\ UNCHANGED <<store, metrics, agent, task, pattern, gen_code, exc, written, hit,
                   calls, arg, ret>>

\* The mapping generate_from_pattern of the server returns: the first when
\* agent.execute returned `result`, the second when it raised.
ServerResult(raised, result, domain) ==
    IF raised
    THEN [success |-> FALSE, code |-> None, domain |-> "none"]
    ELSE [success |-> TRUE, code |-> result, domain |-> domain]

\* agent.execute has returned, and the server returns its mapping; execute
\* returns the text of handle_error for every Exception, so that nothing
\* is raised into the server's except clause.
ServerReturn ==
    /\ ReturnPending
    /\ ret' = ServerResult(FALSE, response, DomainOf(agent))
    /\ UNCHANGED <<arg, execVars>>

Init ==
    /\ store \in StoreInputs
    /\ metrics = <<>>
    /\ errors = <<>>
    /\ pc = "idle"
    /\ agent = "none"
    /\ task = <<>>
    /\ pattern = None
    /\ gen_code = <<>>
    /\ exc = NoExc
    /\ response = None
    /\ written = <<>>
    /\ hit = None
    /\ outcomes = <<>>
    /\ calls = 0
    /\ arg = NotCalled
    /\ ret = NotCalled

Next ==
    \/ \E a \in Agents, t \in ExecTasks : Start(a, t)
    \/ \E t \in ExecTasks : ServerGenerate(t)
    \/ ServerReturn
    \/ MatchStep
    \/ CreateStep
    \/ ValidateStep
    \/ PersistStep
    \/ ExtractStep
    \/ LogStep
    \/ HandleError

Spec == Init /\ [][Next]_vars

-----------------------------------------------------------------------------
(* Properties of the execute pipeline *)

\* execute() has returned.
Finished == pc \in {"done", "failed"}

\* The files the running (or last) invocation wrote.
WrittenNow == {i \in DOMAIN written : written[i].call = calls}

\* C8: every pattern file execute wrote came from a record validate_pattern
\* found valid (the four required metadata keys, at least 50 characters of
\* trimmed code, no incomplete-work marker), every file of the store is a seed
\* file or the text of such a record, and an invocation whose created record is
\* not valid writes no file and returns the error response that carries the
\* validation errors.
C8_PersistedAreValid ==
    /\ \A i \in DOMAIN written :
         LET r == written[i].record
         IN  /\ validate_pattern(r).valid
             /\ Range(required_metadata) \subseteq DOMAIN r.metadata
             /\ Len(Strip(r.code)) >= 50
             /\ ~Contains(r.code, S_TODO) /\ ~Contains(r.code, S_pass)
    /\ \A d \in Domains : \A f \in DOMAIN store[d] :
         \/ f \in DOMAIN SeedFiles(d) /\ store[d][f] = SeedFiles(d)[f]
         \/ \E i \in DOMAIN written :
              /\ written[i].domain = d /\ written[i].file = f
              /\ store[d][f] = format_pattern_markdown(written[i].record)
    /\ (Finished /\ ~Truthy(hit) /\ CreateSupported(agent)
           /\ ~validate_pattern(pattern).valid)
         => /\ pc = "failed"
            /\ WrittenNow = {}
            /\ response.kind = "error"
            /\ response.error.type = "ValueError"
            /\ response.error.errors = validate_pattern(pattern).errors
            /\ response.error.errors # <<>>

\* A first invocation has written a file and a second one, for another task,
\* has failed validation.
C8_Witness ==
    /\ pc = "failed" /\ exc.type = "ValueError"
    /\ calls = 2 /\ Len(written) = 1 /\ written[1].call = 1
    /\ written[1].file \in DOMAIN store[written[1].domain]

\* C9: when the matcher finds no pattern, execute of a concrete agent returns
\* the error response with the NotImplementedError of create_pattern and the
\* agent's pattern directory as the fallback, and writes no pattern file.
C9_MissIsHandled ==
    (Finished /\ agent \in ConcreteAgents /\ ~Truthy(hit))
      => /\ pc = "failed"
         /\ response.kind = "error"
         /\ response.error.type = "NotImplementedError"
         /\ response.error.task = task
         /\ response.patterns_dir = DomainOf(agent)
         /\ WrittenNow = {}
         /\ DOMAIN store[DomainOf(agent)] \subseteq DOMAIN SeedFiles(DomainOf(agent))

\* 'create homepage' on the frontend agent with an empty frontend store.
C9_Witness ==
    /\ pc = "failed" /\ agent = "frontend_ui" /\ task = T_homepage
    /\ store["frontend"] = EmptyDict
    /\ IsNone(hit)
    /\ response.error.type = "NotImplementedError"

\* The number of invocations that ended as `kind`.
Ended(kind) == Cardinality({i \in DOMAIN outcomes : outcomes[i] = kind})

C12_HitReturnsCode ==
    [][/\ (Truthy(hit) \/ Truthy(hit')) => (store' = store /\ written' = written)
       /\ Truthy(hit') => pc' \in {"extract", "log", "done"}
       /\ (Truthy(hit') /\ pc' = "done" /\ pc # "done")
            => /\ response'.kind = "code"
               /\ "code" \in DOMAIN hit'
               /\ response'.text = hit'.code]_vars

\* 'Build Homepage' has hit the pattern of 'Create Homepage' and its code is
\* what execute returned.
C12_Witness ==
    /\ pc = "done" /\ Truthy(hit) /\ task = T_build
    /\ Lower(TaskValue(hit).s) = T_homepage
    /\ response.text = hit.code /\ hit.code # <<>>
    /\ WrittenNow = {}

\* C13: the steps of an invocation follow MATCH, then on a hit EXTRACT, on a
\* miss CREATE, VALIDATE, PERSIST and EXTRACT, then the metrics write and
\* DONE: CREATE is entered on a miss only, PERSIST only when the validator
\* found the created record valid, EXTRACT on a hit or when PERSIST has
\* written the file; a step that fails changes neither the store nor the
\* metrics log, and after it only handle_error runs, which returns the
\* error response; the next step after DONE or ERROR is the MATCH of a new
\* invocation.
C13_OrderedSteps ==
    [][pc' # pc =>
        /\ CASE pc \in {"idle", "done", "failed"} ->
                   pc' = "match" /\ calls' = calls + 1
              [] pc = "match" ->
                   \/ pc' = "extract" /\ Truthy(hit')
                   \/ pc' = "create" /\ ~Truthy(hit')
              [] pc = "create" -> pc' \in {"validate", "error"}
              [] pc = "validate" ->
                   \/ pc' = "persist" /\ validate_pattern(pattern).valid
                   \/ pc' = "error" /\ ~validate_pattern(pattern).valid
              [] pc = "persist" ->
                   \/ pc' = "extract" /\ WrittenNow' # {}
                   \/ pc' = "error"
              [] pc = "extract" -> pc' = "log"
              [] pc = "log" -> pc' = "done" /\ response'.kind = "code"
              [] pc = "error" -> pc' = "failed" /\ response'.kind = "error"
        /\ (pc' = "error" \/ pc = "error")
             => (store' = store /\ written' = written /\ metrics' = metrics)]_vars

\* An invocation has failed, and a later one has gone all the way from a miss
\* through PERSIST to DONE.
C13_Witness ==
    /\ pc = "done" /\ ~Truthy(hit) /\ WrittenNow # {}
    /\ Len(errors) = 1 /\ Len(metrics) = 1

\* C14: the metrics record of an invocation has pattern_reused true exactly
\* when find_pattern returned a pattern, false when the pattern was created
\* in the invocation, and patterns_total the number of files of the agent's
\* directory at the write.
C14_ReusedIffHit ==
    pc = "done" =>
      LET m == metrics[Len(metrics)]
      IN  /\ m.pattern_reused = Truthy(hit)
          /\ m.patterns_total = Cardinality(DOMAIN store[DomainOf(agent)])

\* C17: the mapping the server returns has success true only when the
\* invocation ended in DONE with code as its result, and success false when
\* it ended in ERROR.
C17_SuccessOnlyWhenDone ==
    "success" \in DOMAIN ret =>
      /\ ret.success => (pc = "done" /\ response.kind = "code")
      /\ pc = "failed" => ~ret.success

=============================================================================
